---- MODULE Spec2Model ----
(***************************************************************************)
(* Model of the Lytir.io forecasting backend (src/app.py): the three       *)
(* tables users, markets, forecasts and the request handlers signup,       *)
(* get_market, submit_forecast and resolve_market, executed one request at *)
(* a time.                                                                 *)
(*                                                                         *)
(* A JSON request body is a record whose keys may be absent, so that       *)
(* data.get(k) is None exactly when k is not in DOMAIN data.               *)
(*                                                                         *)
(* forecasts.probability is a REAL column.  The model keeps probabilities  *)
(* in half percentage points (Pct(80) = 160 stands for 80.0, 65 for 32.5), *)
(* so that fractional inputs, the truncation of int() and the rounding of  *)
(* round() are all exercised on exact rationals.                           *)
(***************************************************************************)
EXTENDS Integers, Sequences, FiniteSets, TLC

VARIABLES users, markets, forecasts, resolutions, resp

vars == <<users, markets, forecasts, resolutions, resp>>

(* ---------------------------------------------------------------------- *)
(* Program constants                                                      *)
(* ---------------------------------------------------------------------- *)

\* users.tokens INTEGER DEFAULT 1000
DefaultTokens == 1000

\* tokens_cost = 10 in submit_forecast
tokens_cost == 10

\* "return 50, 0  # Default if no forecasts"
DefaultCrowd == 50

\* init_db seeds three sample markets
SampleMarkets == 3

(* ---------------------------------------------------------------------- *)
(* Bounds of the model                                                    *)
(* ---------------------------------------------------------------------- *)

MaxUsers == 2
MaxForecasts == 2
MaxResolves == 2
MaxDrain == 101

(* ---------------------------------------------------------------------- *)
(* Python / SQL helpers                                                   *)
(* ---------------------------------------------------------------------- *)

\* n percentage points in the unit of the probability column (half points)
Pct(n) == 2 * n

\* data.get(k) is not None
Has(data, k) == k \in DOMAIN data

\* Python truthiness of data.get(k): None and 0 are falsy for a number,
\* None and '' for a string
TruthyInt(data, k) == Has(data, k) /\ data[k] # 0

TruthyStr(data, k) == Has(data, k) /\ data[k] # ""

\* int() replaced by rounding to the nearest integer
python_int_nearest(num, den) == (2 * num + den) \div (2 * den)

\* int(num/den): truncation toward zero
python_int(num, den) ==
    IF num >= 0 THEN num \div den ELSE 0 - ((0 - num) \div den)

\* round() replaced by truncation
python_round_down(num, den) == num \div den

\* round(num/den, 0) for num >= 0: nearest integer, ties to the even one
python_round(num, den) ==
    LET q == num \div den
        r == num % den
    IN  IF 2 * r < den THEN q
        ELSE IF 2 * r > den THEN q + 1
        ELSE IF q % 2 = 0 THEN q ELSE q + 1

\* ids of the rows of a table (AUTOINCREMENT primary key = position)
Ids(table) == 1..Len(table)

\* the sum of the probability column over the rows lo..hi of the market
\* (the numerator of AVG); the range is split in two only to keep the
\* evaluation shallow
RECURSIVE SumProb(_, _, _, _)
SumProb(rows, market_id, lo, hi) ==
    IF lo > hi THEN 0
    ELSE IF lo = hi
         THEN IF rows[lo].market_id = market_id
              THEN rows[lo].probability
              ELSE 0
         ELSE LET mid == (lo + hi) \div 2
              IN  SumProb(rows, market_id, lo, mid)
                      + SumProb(rows, market_id, mid + 1, hi)

\* SELECT AVG(probability), COUNT(*) FROM forecasts WHERE market_id = ?
\* then round(avg, 0), count or the default 50, 0
calculate_crowd_prediction(market_id) ==
    LET count == Cardinality({i \in Ids(forecasts) :
                                 forecasts[i].market_id = market_id})
        sum   == SumProb(forecasts, market_id, 1, Len(forecasts))
    IN  IF count > 0
        THEN <<python_round(sum, Pct(1) * count), count>>
        ELSE <<DefaultCrowd, 0>>

\* reward of one forecast in resolve_market:
\*   accuracy = probability if outcome == 'yes' else 100 - probability
\*   reward = int(accuracy * 0.5)
Reward(probability, outcome) ==
    LET accuracy == IF outcome = "yes" THEN probability
                    ELSE Pct(100) - probability
    IN  python_int(accuracy, Pct(1) * 2)

\* the SELECT of resolve_market without its WHERE market_id = ?
Rewarded_all(fs, market_id, outcome) ==
    [i \in DOMAIN fs |->
        [fs[i] EXCEPT !.reward = Reward(fs[i].probability, outcome)]]

\* the rows of forecasts after the loop "for forecast in forecasts" of
\* resolve_market: every row of the market (SELECT * FROM forecasts WHERE
\* market_id = ?) has had UPDATE forecasts SET reward = ? WHERE id = ?
Rewarded(fs, market_id, outcome) ==
    [i \in DOMAIN fs |->
        IF fs[i].market_id = market_id
        THEN [fs[i] EXCEPT !.reward = Reward(fs[i].probability, outcome)]
        ELSE fs[i]]

\* what the passes of that loop over the rows lo..hi add to the tokens of
\* one user by UPDATE users SET tokens = tokens + ? WHERE id = ?: the
\* rewards of the user's rows of the market (the range is split in two only
\* to keep the evaluation shallow)
RECURSIVE Credit(_, _, _, _, _, _)
Credit(fs, market_id, outcome, user_id, lo, hi) ==
    IF lo > hi THEN 0
    ELSE IF lo = hi
         THEN IF fs[lo].market_id = market_id /\ fs[lo].user_id = user_id
              THEN Reward(fs[lo].probability, outcome)
              ELSE 0
         ELSE LET mid == (lo + hi) \div 2
              IN  Credit(fs, market_id, outcome, user_id, lo, mid)
                      + Credit(fs, market_id, outcome, user_id, mid + 1, hi)

\* the users table after the loop
Credited(us, fs, market_id, outcome) ==
    [u \in DOMAIN us |->
        [us[u] EXCEPT !.tokens =
            @ + Credit(fs, market_id, outcome, u, 1, Len(fs))]]

(* ---------------------------------------------------------------------- *)
(* Initial state: init_db on an empty database                            *)
(* ---------------------------------------------------------------------- *)

Init ==
    /\ users = <<>>
    /\ markets = [m \in 1..SampleMarkets |-> [status |-> "active"]]
    /\ forecasts = <<>>
    /\ resolutions = [m \in 1..SampleMarkets |-> 0]
    /\ resp = [op |-> "init_db", session |-> 0, data |-> [none |-> 0],
               code |-> 0, body |-> [none |-> 0]]

Reply(op, session, data, code, body) ==
    resp' = [op |-> op, session |-> session, data |-> data,
             code |-> code, body |-> body]

Error(msg) == [error |-> msg]

(* ---------------------------------------------------------------------- *)
(* POST /api/signup                                                       *)
(* ---------------------------------------------------------------------- *)

signup(data) ==
    IF ~(TruthyStr(data, "username") /\ TruthyStr(data, "email")
           /\ TruthyStr(data, "password"))
    THEN /\ Reply("signup", 0, data, 400, Error("All fields required"))
         /\ UNCHANGED <<users, markets, forecasts, resolutions>>
    ELSE IF \E i \in Ids(users) : \/ users[i].email = data.email
                                  \/ users[i].username = data.username
    THEN /\ Reply("signup", 0, data, 400, Error("User already exists"))
         /\ UNCHANGED <<users, markets, forecasts, resolutions>>
    ELSE /\ users' = Append(users, [username |-> data.username,
                                    email |-> data.email,
                                    tokens |-> DefaultTokens])
         /\ Reply("signup", Len(users) + 1, data, 201,
                  [id |-> Len(users) + 1, tokens |-> DefaultTokens])
         /\ UNCHANGED <<markets, forecasts, resolutions>>

(* ---------------------------------------------------------------------- *)
(* GET /api/markets/<int:market_id>                                       *)
(* ---------------------------------------------------------------------- *)

get_market(market_id) ==
    /\ IF market_id \notin Ids(markets)
       THEN Reply("get_market", 0, [market_id |-> market_id], 404,
                  Error("Market not found"))
       ELSE LET crowd == calculate_crowd_prediction(market_id)
            IN  Reply("get_market", 0, [market_id |-> market_id], 200,
                      [status |-> markets[market_id].status,
                       crowd_prediction |-> crowd[1],
                       forecasts_count |-> crowd[2]])
    /\ UNCHANGED <<users, markets, forecasts, resolutions>>

(* ---------------------------------------------------------------------- *)
(* POST /api/forecast   (session = 0: no user_id in the session)          *)
(* ---------------------------------------------------------------------- *)

\* the range check without its upper bound
InRange_lower(probability) == 0 <= probability

\* the check "0 <= probability <= 100" passes
InRange(probability) == 0 <= probability /\ probability <= Pct(100)

\* the status check left out
MarketIsActive_any(market) == TRUE

\* the guard "if market['status'] != 'active'" passes
MarketIsActive(market) == ~(market.status # "active")

\* the balance compared with 0 instead of the cost
HasEnoughTokens_zero(tokens) == ~(tokens < 0)

\* the guard "if user['tokens'] < tokens_cost" passes
HasEnoughTokens(tokens) == ~(tokens < tokens_cost)

\* the debit without its WHERE id = ?
Debit_all(us, user_id) ==
    [u \in DOMAIN us |-> [us[u] EXCEPT !.tokens = @ - tokens_cost]]

\* UPDATE users SET tokens = tokens - ? WHERE id = ?
Debit(us, user_id) == [us EXCEPT ![user_id].tokens = @ - tokens_cost]

submit_forecast(session, data) ==
    LET reject(code, msg) ==
            /\ Reply("submit_forecast", session, data, code, Error(msg))
            /\ UNCHANGED <<users, markets, forecasts, resolutions>>
    IN
    IF session = 0
    THEN reject(401, "Authentication required")
    ELSE IF ~(TruthyInt(data, "market_id") /\ Has(data, "probability"))
    THEN reject(400, "Market ID and probability required")
    ELSE IF ~InRange(data.probability)
    THEN reject(400, "Probability must be between 0 and 100")
    ELSE IF data.market_id \notin Ids(markets)
    THEN reject(404, "Market not found")
    ELSE IF ~MarketIsActive(markets[data.market_id])
    THEN reject(400, "Market is not active")
    ELSE IF ~HasEnoughTokens(users[session].tokens)
    THEN reject(400, "Insufficient tokens")
    ELSE /\ forecasts' = Append(forecasts,
                                [user_id |-> session,
                                 market_id |-> data.market_id,
                                 probability |-> data.probability,
                                 tokens_spent |-> tokens_cost,
                                 reward |-> 0])
         /\ users' = Debit(users, session)
         /\ Reply("submit_forecast", session, data, 201,
                  [forecast_id |-> Len(forecasts) + 1])
         /\ UNCHANGED <<markets, resolutions>>

(* ---------------------------------------------------------------------- *)
(* POST /api/admin/resolve-market                                         *)
(* ---------------------------------------------------------------------- *)

\* the status toggled instead of set
Resolved_toggle(ms, market_id) ==
    IF market_id \in Ids(ms)
    THEN [ms EXCEPT ![market_id].status =
             IF @ = "active" THEN "resolved" ELSE "active"]
    ELSE ms

\* UPDATE markets SET status = 'resolved' WHERE id = ?
Resolved(ms, market_id) ==
    IF market_id \in Ids(ms)
    THEN [ms EXCEPT ![market_id].status = "resolved"]
    ELSE ms

resolve_market(data) ==
    IF ~(TruthyInt(data, "market_id") /\ TruthyStr(data, "outcome"))
    THEN /\ Reply("resolve_market", 0, data, 400,
                  Error("Market ID and outcome required"))
         /\ UNCHANGED <<users, markets, forecasts, resolutions>>
    ELSE /\ markets' = Resolved(markets, data.market_id)
         /\ forecasts' = Rewarded(forecasts, data.market_id, data.outcome)
         /\ users' = Credited(users, forecasts, data.market_id, data.outcome)
         /\ resolutions' =
                IF data.market_id \in Ids(markets)
                THEN [resolutions EXCEPT ![data.market_id] = @ + 1]
                ELSE resolutions
         /\ Reply("resolve_market", 0, data, 200,
                  [message |-> "Market resolved successfully"])

(* ---------------------------------------------------------------------- *)
(* Requests                                                               *)
(* ---------------------------------------------------------------------- *)

Credentials ==
    { [username |-> "ann", email |-> "ann@x", password |-> "pw"],
      [username |-> "bob", email |-> "bob@x", password |-> "pw"],
      [username |-> "ann", email |-> "bob@x", password |-> "pw"],
      [username |-> "cat", email |-> "cat@x"] }

\* 32.5 and 80 percent
ValidProbs == {65, Pct(80)}

ForecastData ==
    { [market_id |-> 1, probability |-> p] : p \in ValidProbs }
    \cup { [market_id |-> 2, probability |-> Pct(80)] }
    \cup { [market_id |-> 1, probability |-> 0 - 1],
           [market_id |-> 1, probability |-> Pct(100) + 1],
           [market_id |-> SampleMarkets + 1, probability |-> Pct(80)],
           [market_id |-> 0, probability |-> Pct(80)],
           [market_id |-> 1] }

ResolveData ==
    { [market_id |-> m, outcome |-> o] :
          m \in {1, 2, SampleMarkets + 1}, o \in {"yes", "no"} }
    \cup { [market_id |-> 1, outcome |-> ""], [outcome |-> "yes"] }

Sessions == {0} \cup Ids(users)

\* the request sent without a session
AnonymousData == { [market_id |-> 1, probability |-> Pct(80)] }

RECURSIVE Total(_, _)
Total(f, S) ==
    IF S = {} THEN 0
    ELSE LET x == CHOOSE y \in S : TRUE IN f[x] + Total(f, S \ {x})

SignupStep ==
    \E data \in Credentials :
        signup(data) /\ Len(users') <= MaxUsers

GetMarketStep ==
    \E market_id \in 1..(SampleMarkets + 1) : get_market(market_id)

SubmitStep ==
    \E session \in Sessions, data \in ForecastData :
        /\ session = 0 => data \in AnonymousData
        /\ submit_forecast(session, data)
        /\ Len(forecasts') <= MaxForecasts

ResolveStep ==
    \E data \in ResolveData :
        resolve_market(data)
        /\ Total(resolutions', DOMAIN resolutions') <= MaxResolves

Next == SignupStep \/ GetMarketStep \/ SubmitStep \/ ResolveStep

Spec == Init /\ [][Next]_vars

(* ---------------------------------------------------------------------- *)
(* One forecaster spending a whole balance on market 1                    *)
(* ---------------------------------------------------------------------- *)

DrainCredentials == { [username |-> "ann", email |-> "ann@x", password |-> "pw"] }

DrainForecastData == { [market_id |-> 1, probability |-> Pct(100)] }

DrainResolveData == { [market_id |-> 1, outcome |-> o] : o \in {"yes", "no"} }

DrainSignupStep ==
    \E data \in DrainCredentials :
        signup(data) /\ Len(users') <= MaxUsers

DrainGetMarketStep == get_market(1)

DrainSubmitStep ==
    \E session \in Ids(users), data \in DrainForecastData :
        submit_forecast(session, data) /\ Len(forecasts') <= MaxDrain

DrainResolveStep ==
    \E data \in DrainResolveData :
        resolve_market(data)
        /\ Total(resolutions', DOMAIN resolutions') <= MaxResolves

NextDrain ==
    DrainSignupStep \/ DrainGetMarketStep \/ DrainSubmitStep \/ DrainResolveStep

SpecDrain == Init /\ [][NextDrain]_vars

(* ---------------------------------------------------------------------- *)
(* The arithmetic of crowd aggregation and rewards, on the states reached  *)
(* when user 1 has submitted forecasts on market 1: either one forecast of *)
(* any probability of the range, or up to MaxCrowd forecasts drawn from    *)
(* CrowdProbs.                                                            *)
(* ---------------------------------------------------------------------- *)

MaxCrowd == 3

\* 0, 0.5, 1, 1.5, 32.5, 80, 99.5 and 100 percent
CrowdProbs == {0, 1, 2, 3, 65, Pct(80), Pct(100) - 1, Pct(100)}

RECURSIVE SeqsUpTo(_, _)
SeqsUpTo(S, n) ==
    IF n = 0 THEN {<<>>}
    ELSE LET shorter == SeqsUpTo(S, n - 1)
         IN  shorter \cup {Append(q, x) : q \in shorter, x \in S}

Submitted(probs) ==
    [i \in 1..Len(probs) |-> [user_id |-> 1, market_id |-> 1,
                              probability |-> probs[i],
                              tokens_spent |-> tokens_cost, reward |-> 0]]

InitArith ==
    /\ \E probs \in SeqsUpTo(CrowdProbs, MaxCrowd)
                    \cup {<<p>> : p \in 0..Pct(100)} :
          /\ forecasts = Submitted(probs)
          /\ users = << [username |-> "ann", email |-> "ann@x",
                         tokens |-> DefaultTokens - tokens_cost * Len(probs)] >>
    /\ markets = [m \in 1..SampleMarkets |-> [status |-> "active"]]
    /\ resolutions = [m \in 1..SampleMarkets |-> 0]
    /\ resp = [op |-> "init_db", session |-> 0, data |-> [none |-> 0],
               code |-> 0, body |-> [none |-> 0]]

NextArith == GetMarketStep \/ ResolveStep

SpecArith == InitArith /\ [][NextArith]_vars

(* ====================================================================== *)
(* Properties                                                             *)
(* ====================================================================== *)

\* the request handled by the last step
IsSubmit(r) == r.op = "submit_forecast"

IsResolve(r) == r.op = "resolve_market"

\* a resolve-market request carrying a market id and an outcome
ResolveRequest(r) ==
    /\ IsResolve(r)
    /\ "market_id" \in DOMAIN r.data /\ r.data.market_id # 0
    /\ "outcome" \in DOMAIN r.data /\ r.data.outcome # ""

\* an authenticated forecast request carrying a market id and a probability
ForecastRequest(r) ==
    /\ IsSubmit(r)
    /\ r.session # 0
    /\ "market_id" \in DOMAIN r.data /\ r.data.market_id # 0
    /\ "probability" \in DOMAIN r.data

WithinRange(p) == p >= 0 /\ p <= 200

ForecastsOn(fs, m) == {i \in 1..Len(fs) : fs[i].market_id = m}

ForecastsBy(fs, u) == {i \in 1..Len(fs) : fs[i].user_id = u}

\* the sum of the rewards of the rows lo..hi of fs whose id is in ids
RECURSIVE SumRewardIn(_, _, _, _)
SumRewardIn(fs, ids, lo, hi) ==
    IF lo > hi THEN 0
    ELSE IF lo = hi
         THEN IF lo \in ids THEN fs[lo].reward ELSE 0
         ELSE LET mid == (lo + hi) \div 2
              IN  SumRewardIn(fs, ids, lo, mid) + SumRewardIn(fs, ids, mid + 1, hi)

SumReward(fs, ids) == SumRewardIn(fs, ids, 1, Len(fs))

\* the sum of the probabilities of the rows lo..hi of fs whose id is in ids
RECURSIVE SumProbabilityIn(_, _, _, _)
SumProbabilityIn(fs, ids, lo, hi) ==
    IF lo > hi THEN 0
    ELSE IF lo = hi
         THEN IF lo \in ids THEN fs[lo].probability ELSE 0
         ELSE LET mid == (lo + hi) \div 2
              IN  SumProbabilityIn(fs, ids, lo, mid)
                      + SumProbabilityIn(fs, ids, mid + 1, hi)

SumProbability(fs, ids) == SumProbabilityIn(fs, ids, 1, Len(fs))

TablesUnchanged == forecasts' = forecasts /\ users' = users /\ markets' = markets

(* ------------------------------ C1 ------------------------------------ *)

NonNegativeBalances == \A u \in Ids(users) : users[u].tokens >= 0

PoorSubmitRejected ==
    \A u \in Ids(users) :
        (IsSubmit(resp') /\ resp'.session = u /\ users[u].tokens < 10)
        => /\ resp'.code # 201
           /\ TablesUnchanged
           /\ ( ( ForecastRequest(resp')
                  /\ WithinRange(resp'.data.probability)
                  /\ resp'.data.market_id \in DOMAIN markets
                  /\ markets[resp'.data.market_id].status = "active" )
                => resp'.code = 400 )

\* C1: every user's token balance is >= 0 in every reachable state, and a
\* forecast submitted by a user holding fewer than 10 tokens is rejected
\* (with 400 when the request is otherwise acceptable) without creating a
\* forecast or changing any balance.
SpendWithinBalance ==
    /\ []NonNegativeBalances
    /\ [][PoorSubmitRejected]_vars

\* a user with fewer than 10 tokens has just been refused a forecast
WitnessInsufficientTokens ==
    /\ IsSubmit(resp) /\ resp.code = 400
    /\ resp.body.error = "Insufficient tokens"
    /\ users[resp.session].tokens < 10
    /\ Len(forecasts) = 100

(* ------------------------------ C2 ------------------------------------ *)

StatusStep ==
    /\ DOMAIN markets' = DOMAIN markets
    /\ \A m \in DOMAIN markets :
        /\ markets[m].status = "resolved" => markets'[m].status = "resolved"
        /\ markets'[m].status # markets[m].status
           => /\ markets[m].status = "active"
              /\ markets'[m].status = "resolved"
              /\ ResolveRequest(resp')
              /\ resp'.data.market_id = m

\* C2: a market's status changes at most once, only from 'active' to
\* 'resolved', only by resolve_market on that market, and a resolved market
\* never becomes active again, also when resolve_market is repeated.
MarketResolvesOnce == [][StatusStep]_vars

\* a market has been resolved twice and is still resolved
WitnessResolvedTwice ==
    \E m \in DOMAIN markets :
        resolutions[m] = 2 /\ markets[m].status = "resolved"

(* ------------------------------ C3 ------------------------------------ *)

RewardZeroWhileActive ==
    \A i \in Ids(forecasts) :
        markets[forecasts[i].market_id].status = "active"
        => forecasts[i].reward = 0

RewardKeptOnceResolved ==
    \A i \in Ids(forecasts) :
        markets[forecasts[i].market_id].status = "resolved"
        => forecasts'[i].reward = forecasts[i].reward

\* C3: a forecast's reward is 0 while its market is active, and once the
\* market is resolved (the reward has been written) the reward never
\* changes again, whatever the later operations.
RewardSetAtMostOnce ==
    /\ []RewardZeroWhileActive
    /\ [][RewardKeptOnceResolved]_vars

(* ------------------------------ C4 ------------------------------------ *)

ResolvedStaysClosed ==
    /\ ( ResolveRequest(resp') /\ resp'.data.market_id \in DOMAIN markets )
       => markets'[resp'.data.market_id].status = "resolved"
    /\ \A m \in DOMAIN markets :
        markets[m].status = "resolved"
        => /\ ForecastsOn(forecasts', m) = ForecastsOn(forecasts, m)
           /\ ( IsSubmit(resp') /\ "market_id" \in DOMAIN resp'.data
                /\ resp'.data.market_id = m )
              => /\ resp'.code # 201
                 /\ TablesUnchanged
                 /\ resp'.session # 0 => resp'.code = 400

\* C4: after resolve_market(m, outcome) market m is 'resolved'; every later
\* forecast against m is rejected (400 for a logged-in user) and leaves the
\* forecasts and all balances unchanged, so the set of forecasts of a
\* resolved market never grows.
NoForecastAfterResolution == [][ResolvedStaysClosed]_vars

\* a logged-in user has just been refused a forecast on a resolved market
WitnessForecastOnResolved ==
    /\ ForecastRequest(resp) /\ resp.code = 400
    /\ resp.body.error = "Market is not active"
    /\ markets[resp.data.market_id].status = "resolved"

(* ------------------------------ C5 ------------------------------------ *)

\* floor(accuracy * 0.5) for a probability p in half points: the accuracy is
\* a/2 percent with a = p or 200 - p, and TLA+'s \div rounds down
FloorHalfAccuracy(p, outcome) ==
    (IF outcome = "yes" THEN p ELSE 200 - p) \div 4

RewardIsFloor ==
    ( ResolveRequest(resp') /\ resp'.data.market_id \in DOMAIN markets )
    => \A i \in ForecastsOn(forecasts, resp'.data.market_id) :
         LET p == forecasts[i].probability
             o == resp'.data.outcome
         IN  /\ forecasts'[i].reward = FloorHalfAccuracy(p, o)
             /\ forecasts'[i].reward \in 0..50
             /\ (p = 160 /\ o = "yes") => forecasts'[i].reward = 40
             /\ (p = 160 /\ o = "no") => forecasts'[i].reward = 10

\* C5: for every probability p in [0,100] and every outcome, resolve_market
\* sets the reward to floor(accuracy * 0.5), accuracy being p on 'yes' and
\* 100 - p otherwise; the reward lies in 0..50, and p = 80 gives 40 on 'yes'
\* and 10 on 'no'.
RewardFormula == [][RewardIsFloor]_vars

\* a forecast of 32.5 percent has been resolved 'no': accuracy 67.5, reward 33
WitnessOddAccuracy ==
    /\ ResolveRequest(resp) /\ resp.data.outcome = "no"
    /\ \E i \in Ids(forecasts) :
          /\ forecasts[i].market_id = resp.data.market_id
          /\ forecasts[i].probability = 65
          /\ forecasts[i].reward = 33

(* ------------------------------ C6 ------------------------------------ *)

ResolveEffect ==
    ( ResolveRequest(resp') /\ resp'.data.market_id \in DOMAIN markets )
    => LET m == resp'.data.market_id
       IN  /\ Len(forecasts') = Len(forecasts)
           /\ Len(users') = Len(users)
           /\ \A u \in Ids(users) :
                users'[u].tokens = users[u].tokens
                    + SumReward(forecasts',
                                ForecastsOn(forecasts, m)
                                    \cap ForecastsBy(forecasts, u))
           /\ \A u \in Ids(users) :
                ForecastsOn(forecasts, m) \cap ForecastsBy(forecasts, u) = {}
                => users'[u] = users[u]
           /\ \A k \in DOMAIN markets : k # m => markets'[k] = markets[k]
           /\ \A i \in Ids(forecasts) :
                IF forecasts[i].market_id = m
                THEN forecasts'[i] =
                        [forecasts[i] EXCEPT
                            !.reward = FloorHalfAccuracy(forecasts[i].probability,
                                                         resp'.data.outcome)]
                ELSE forecasts'[i] = forecasts[i]

\* C6: resolve_market(m, outcome) sets the reward of every forecast on m and
\* adds to each forecaster's balance exactly the sum of the rewards of their
\* forecasts on m; the balance of a user with no forecast on m, the status
\* of every other market and the forecasts on other markets are unchanged.
ResolveFrame == [][ResolveEffect]_vars

\* a resolution has paid a forecaster while another user holds a forecast
\* on another market
WitnessPaidAndUntouched ==
    /\ ResolveRequest(resp) /\ resp.code = 200
    /\ \E i, j \in Ids(forecasts) :
          /\ forecasts[i].market_id = resp.data.market_id
          /\ forecasts[i].reward > 0
          /\ forecasts[j].market_id # resp.data.market_id
          /\ forecasts[j].user_id # forecasts[i].user_id

(* ------------------------------ C7 ------------------------------------ *)

Abs(x) == IF x >= 0 THEN x ELSE 0 - x

\* the crowd prediction answered by get_market is 50 with count 0 for a
\* market without forecasts, otherwise the count of forecasts and a whole
\* number c at distance at most 1/2 from the mean sum/(2 * count) percent
CrowdIsRoundedMean ==
    ( resp.op = "get_market" /\ resp.code = 200 )
    => LET ids == ForecastsOn(forecasts, resp.data.market_id)
           n   == Cardinality(ids)
           sum == SumProbability(forecasts, ids)
           c   == resp.body.crowd_prediction
       IN  /\ resp.body.forecasts_count = n
           /\ IF n = 0 THEN c = 50
              ELSE Abs(2 * n * c - sum) <= n

\* C7: calculate_crowd_prediction(m) is (50, 0) for a market without
\* forecasts and otherwise the mean of the probabilities on m rounded to a
\* nearest whole percentage point, with the number of forecasts on m, means
\* halfway between two integers included.
CrowdPrediction == CrowdIsRoundedMean

\* get_market has answered for several forecasts whose mean is halfway
\* between two integers
WitnessHalfwayMean ==
    /\ resp.op = "get_market" /\ resp.code = 200
    /\ resp.body.forecasts_count >= 2
    /\ LET ids == ForecastsOn(forecasts, resp.data.market_id)
       IN  SumProbability(forecasts, ids) % (2 * Cardinality(ids)) = Cardinality(ids)

(* ------------------------------ C8 ------------------------------------ *)

StoredProbabilitiesInRange ==
    \A i \in Ids(forecasts) : WithinRange(forecasts[i].probability)

OutOfRangeRejected ==
    /\ ( IsSubmit(resp') /\ "probability" \in DOMAIN resp'.data
         /\ ~WithinRange(resp'.data.probability) )
       => /\ TablesUnchanged
          /\ resp'.session # 0 => resp'.code = 400
    /\ \A i \in Ids(forecasts) :
          /\ i \in Ids(forecasts')
          /\ forecasts'[i].probability = forecasts[i].probability
          /\ forecasts'[i].market_id = forecasts[i].market_id
          /\ forecasts'[i].user_id = forecasts[i].user_id

\* C8: a forecast with a probability outside [0,100] is rejected (400 for a
\* logged-in user) and changes no table, so every stored forecast has a
\* probability within [0,100]; the probability, market and user of a stored
\* forecast never change.
ProbabilityWithinRange ==
    /\ []StoredProbabilitiesInRange
    /\ [][OutOfRangeRejected]_vars

\* an out-of-range forecast has just been refused while forecasts are stored
WitnessOutOfRange ==
    /\ ForecastRequest(resp) /\ resp.code = 400
    /\ resp.data.probability > 200
    /\ Len(forecasts) >= 1

(* ------------------------------ C9 ------------------------------------ *)

NamesUnknownMarket(r) ==
    \/ r.op = "get_market" /\ r.data.market_id \notin DOMAIN markets
    \/ /\ ForecastRequest(r)
       /\ WithinRange(r.data.probability)
       /\ r.data.market_id \notin DOMAIN markets
    \/ ResolveRequest(r) /\ r.data.market_id \notin DOMAIN markets

\* C9: a get_market, submit_forecast or resolve_market request naming a
\* market id that is not in the store is answered with 404 and leaves
\* markets, forecasts and balances unchanged.
UnknownMarketIs404 ==
    [][ NamesUnknownMarket(resp') => resp'.code = 404 /\ TablesUnchanged ]_vars

(* ------------------------------ C10 ----------------------------------- *)

ResolvedAtMostOnce == \A m \in DOMAIN resolutions : resolutions[m] <= 1

BalanceEquation ==
    ResolvedAtMostOnce
    => \A u \in Ids(users) :
         users[u].tokens =
            1000 - 10 * Cardinality(ForecastsBy(forecasts, u))
                 + SumReward(forecasts, ForecastsBy(forecasts, u))

SubmitDebitsTen ==
    ( IsSubmit(resp') /\ resp'.code = 201 )
    => /\ users'[resp'.session].tokens = users[resp'.session].tokens - 10
       /\ \A u \in Ids(users) : u # resp'.session => users'[u] = users[u]

\* C10: as long as every market has been resolved at most once, each user's
\* balance is 1000 - 10 * (forecasts submitted) + (sum of the rewards of
\* those forecasts); a successful submit_forecast debits exactly 10 tokens
\* from the submitter and changes no other balance.
TokenAccounting ==
    /\ []BalanceEquation
    /\ [][SubmitDebitsTen]_vars

\* two users, one of them paid a reward for a forecast, no market resolved
\* twice
WitnessPaidOnce ==
    /\ ResolvedAtMostOnce
    /\ Len(users) = 2
    /\ \E i \in Ids(forecasts) : forecasts[i].reward > 0
    /\ \E i \in Ids(forecasts) :
          markets[forecasts[i].market_id].status = "active"

====
